---- MODULE Spec2Model ----
(***************************************************************************)
(* State-machine model of the INSAT COG Data Explorer frontend:            *)
(*   VisualizationProvider (shared context), SpectralBands,                *)
(*   BandManipulations, Visualization and DataStatistics.                  *)
(* Every await of the source is a suspension point: the code up to an      *)
(* await is one action, the continuation after it is another.  A React     *)
(* effect is part of the action whose state write triggers it.             *)
(***************************************************************************)
EXTENDS Integers, Sequences, FiniteSets, TLC

\* ---------------------------------------------------------------- bounds
MaxSelects == 3
MaxCalcs == 2
\* selections and runs in the specification of the two racing writers
MaxRaceSelects == 1
MaxRaceCalcs == 1

\* ---------------------------------------------------------------- values
\* Band identifiers: two of the six the source offers, as served by the catalog.
BandIds == {"IMG_VIS", "IMG_SWIR"}
\* The JavaScript value undefined (a missing property), kept apart from ''.
Undefined == "<undefined>"
\* null, the initial value of the statistics record.
Null == "<null>"

Truthy(s) == s # "" /\ s # Undefined

\* String.prototype.startsWith('blob:')
StartsWithBlob(s) == Len(s) >= 5 /\ SubSeq(s, 1, 5) = "blob:"

\* `/api/visualize/${bandName}`
VisualizePath(bandName) == "/api/visualize/" \o bandName

\* `http://localhost:8000/api/convert/${band}` (base omitted)
ConvertPath(bandName) == "/api/convert/" \o bandName

\* URL.createObjectURL(response.data): a local handle for the blob that the
\* GET of apiUrl returned.
CreateObjectURL(apiUrl) == "blob:" \o apiUrl

\* The statistics payload the backend returns for a band.
StatsOf(bandName) == "stats:" \o bandName

NoBody == [none |-> TRUE]
Request(method, path, body) == [method |-> method, path |-> path, body |-> body]

VARIABLES
  \* VisualizationProvider
  visualizationUrl, visualizationType, selectedBand,
  \* SpectralBands
  bands, catalog, localSelected, selects,
  \* BandManipulations
  operation, band1, band2, bmLoading, calc, calcRuns,
  \* Visualization
  imageUrl, vizLoading, vizError, imgFetches,
  \* DataStatistics
  stats, statsLoading, statsError, statsFetches

ctxVars == <<visualizationUrl, visualizationType, selectedBand>>
bandsVars == <<bands, catalog, localSelected, selects>>
formVars == <<operation, band1, band2>>
calcVars == <<bmLoading, calc, calcRuns>>
vizVars == <<imageUrl, vizLoading, vizError, imgFetches>>
statsVars == <<stats, statsLoading, statsError, statsFetches>>
vars == <<ctxVars, bandsVars, formVars, calcVars, vizVars, statsVars>>

\* useState<Record<string, BandInfo>>({}): the band-descriptor mapping, by
\* its keys; defined is FALSE once setBands(undefined) has run.
EmptyBands == [defined |-> TRUE, names |-> {}]

\* The SpectralBands render calls Object.entries(bands), which throws for an
\* undefined mapping; no error boundary exists, so React unmounts the whole
\* tree: no handler can be invoked any more, no effect runs, and the setters
\* that the continuations of requests in flight call do nothing.
Mounted == catalog.st # "crashed"

\* No arithmetic response received (yet) by a handleCalculate run.
NoResponse ==
  [hasData |-> FALSE, status |-> "<none>", hasPayload |-> FALSE, visualization |-> Undefined]

IdleCalc ==
  [pc |-> "idle", band1 |-> "", band2 |-> "", operation |-> "ratio", run |-> 0,
   log |-> <<>>, toasts |-> <<>>, changed |-> {}, result |-> "", resp |-> NoResponse]

Init ==
  /\ visualizationUrl = ""
  /\ visualizationType = "none"
  /\ selectedBand = ""
  /\ bands = EmptyBands
  /\ catalog = [st |-> "pending", requests |-> 1, toasts |-> <<>>]
  /\ localSelected = ""
  /\ selects = <<>>
  /\ operation = "ratio"
  /\ band1 = ""
  /\ band2 = ""
  /\ bmLoading = FALSE
  /\ calc = IdleCalc
  /\ calcRuns = 0
  /\ imageUrl = ""
  /\ vizLoading = FALSE
  /\ vizError = ""
  /\ imgFetches = <<>>
  /\ stats = Null
  /\ statsLoading = FALSE
  /\ statsError = ""
  /\ statsFetches = <<>>

\* ------------------------------------------------------------ effects
\* Visualization: useEffect(..., [visualizationUrl]) run for a write of
\* newUrl to the context.
VisualizationEffect(newUrl) ==
  IF newUrl # visualizationUrl /\ Truthy(newUrl)
  THEN IF StartsWithBlob(newUrl)
       THEN /\ imageUrl' = newUrl
            /\ UNCHANGED <<vizLoading, vizError, imgFetches>>
       ELSE \* loadImageFromApi up to its await
            /\ vizLoading' = TRUE
            /\ vizError' = ""
            /\ imgFetches' = Append(imgFetches,
                 [url |-> newUrl, st |-> "pending",
                  overlaps |-> \E j \in 1..Len(imgFetches) : imgFetches[j].st = "pending"])
            /\ UNCHANGED imageUrl
  ELSE UNCHANGED vizVars

\* Variant: statistics already requested for a band are not requested again.
StatisticsEffectCached(newBand) ==
  IF /\ newBand # selectedBand
     /\ Truthy(newBand)
     /\ \A j \in 1..Len(statsFetches) : statsFetches[j].band # newBand
  THEN /\ statsLoading' = TRUE
       /\ statsError' = ""
       /\ statsFetches' = Append(statsFetches, [band |-> newBand, st |-> "pending"])
       /\ UNCHANGED stats
  ELSE UNCHANGED statsVars

\* DataStatistics: useEffect(..., [selectedBand]) run for a write of
\* newBand to the context.
StatisticsEffect(newBand) ==
  IF newBand # selectedBand /\ Truthy(newBand)
  THEN \* loadStatistics up to its await
       /\ statsLoading' = TRUE
       /\ statsError' = ""
       /\ statsFetches' = Append(statsFetches, [band |-> newBand, st |-> "pending"])
       /\ UNCHANGED stats
  ELSE UNCHANGED statsVars

\* ------------------------------------------------------------ SpectralBands
\* Bodies of a 2xx catalog response: the documented {data: {...}}, a body
\* without the data property, and a null body.
CatalogBodies == {"mapping", "nodata", "null"}

\* the catch block of fetchBands
FetchBandsCatch ==
  /\ catalog' = [catalog EXCEPT !.st = "failed", !.toasts = Append(@, "error")]
  /\ UNCHANGED bands

\* fetchBands resolves with a 2xx: setBands(response.data.data)
FetchBandsOk(body) ==
  /\ catalog.st = "pending"
  /\ CASE body = "mapping" ->
            /\ bands' = [defined |-> TRUE, names |-> BandIds]
            /\ catalog' = [catalog EXCEPT !.st = "loaded"]
       [] body = "nodata" ->
            \* setBands(undefined), then the render throws
            /\ bands' = [defined |-> FALSE, names |-> {}]
            /\ catalog' = [catalog EXCEPT !.st = "crashed"]
       [] body = "null" ->
            \* response.data.data throws a TypeError inside the try
            FetchBandsCatch
  /\ UNCHANGED <<ctxVars, localSelected, selects, formVars, calcVars, vizVars, statsVars>>

\* fetchBands rejects (transport failure, non-2xx): error toast, bands stays {}
FetchBandsFail ==
  /\ catalog.st = "pending"
  /\ FetchBandsCatch
  /\ UNCHANGED <<ctxVars, localSelected, selects, formVars, calcVars, vizVars, statsVars>>

\* handleBandSelect(bandName) up to the await of the convert call.
HandleBandSelect(bandName) ==
  /\ bands.defined
  /\ bandName \in bands.names
  /\ Len(selects) < MaxSelects
  /\ localSelected' = bandName
  /\ selectedBand' = bandName
  /\ StatisticsEffect(bandName)
  /\ selects' = Append(selects,
       [band |-> bandName, pc |-> "convert", toasts |-> <<>>,
        changed |-> IF bandName # selectedBand THEN {"selectedBand"} ELSE {},
        duringCalc |-> IF calc.pc \in {"convert1", "convert2", "recheck", "manipulate"}
                       THEN calc.run ELSE 0])
  /\ UNCHANGED <<visualizationUrl, visualizationType, bands, catalog,
                 formVars, calcVars, vizVars>>

\* A variant of the completion that sets the kind and leaves the reference.
BandConvertOkKindOnly(i) ==
  /\ i \in 1..Len(selects)
  /\ selects[i].pc = "convert"
  /\ visualizationType' = "band"
  /\ selects' = [selects EXCEPT
       ![i].pc = "done",
       ![i].toasts = Append(@, "success"),
       ![i].changed = @ \cup (IF visualizationType # "band" THEN {"visualizationType"} ELSE {})]
  /\ UNCHANGED <<visualizationUrl, selectedBand, bands, catalog, localSelected,
                 formVars, calcVars, vizVars, statsVars>>

\* handleBandSelect after the convert call resolved.
BandConvertOk(i) ==
  /\ i \in 1..Len(selects)
  /\ selects[i].pc = "convert"
  /\ LET bandName == selects[i].band
         newUrl == VisualizePath(bandName)
     IN /\ visualizationType' = "band"
        /\ visualizationUrl' = newUrl
        /\ VisualizationEffect(newUrl)
        /\ selects' = [selects EXCEPT
             ![i].pc = "done",
             ![i].toasts = Append(@, "success"),
             ![i].changed = @ \cup (IF visualizationType # "band" THEN {"visualizationType"} ELSE {})
                              \cup (IF visualizationUrl # newUrl THEN {"visualizationUrl"} ELSE {})]
  /\ UNCHANGED <<selectedBand, bands, catalog, localSelected, formVars, calcVars, statsVars>>

\* Variant: the kind is published before the convert call is awaited.
BandConvertFailKindSet(i) ==
  /\ i \in 1..Len(selects)
  /\ selects[i].pc = "convert"
  /\ visualizationType' = "band"
  /\ selects' = [selects EXCEPT ![i].pc = "failed", ![i].toasts = Append(@, "error"),
       ![i].changed = @ \cup (IF visualizationType # "band" THEN {"visualizationType"} ELSE {})]
  /\ UNCHANGED <<visualizationUrl, selectedBand, bands, catalog, localSelected,
                 formVars, calcVars, vizVars, statsVars>>

\* handleBandSelect after the convert call rejected: the outer catch.
BandConvertFail(i) ==
  /\ i \in 1..Len(selects)
  /\ selects[i].pc = "convert"
  /\ selects' = [selects EXCEPT ![i].pc = "failed", ![i].toasts = Append(@, "error")]
  /\ UNCHANGED <<ctxVars, bands, catalog, localSelected, formVars, calcVars, vizVars, statsVars>>

\* ------------------------------------------------------------ BandManipulations
\* <Select> onChange handlers of the panel.
SetOperation(op) ==
  /\ Mounted
  /\ operation' = op
  /\ UNCHANGED <<ctxVars, bandsVars, band1, band2, calcVars, vizVars, statsVars>>

SetBand1(bandName) ==
  /\ Mounted
  /\ band1' = bandName
  /\ UNCHANGED <<ctxVars, bandsVars, operation, band2, calcVars, vizVars, statsVars>>

SetBand2(bandName) ==
  /\ Mounted
  /\ band2' = bandName
  /\ UNCHANGED <<ctxVars, bandsVars, operation, band1, calcVars, vizVars, statsVars>>

\* The request log of a handleCalculate run: axios calls and their outcomes.
Issue(log, req) == Append(log, <<"issue", req>>)
Complete(log) == Append(log, <<"done", log[Len(log)][2]>>)
Reject(log) == Append(log, <<"failed", log[Len(log)][2]>>)

\* endpoint and payload of the arithmetic request.
Endpoint(op) == IF op = "ratio" THEN "/api/manipulate/ratio" ELSE "/api/manipulate/difference"

\* Variant: the ratio operands are sent the other way round.
PayloadSwapped(op, b1, b2) ==
  IF op = "ratio" THEN [numerator |-> b2, denominator |-> b1]
                  ELSE [band1 |-> b1, band2 |-> b2]

Payload(op, b1, b2) ==
  IF op = "ratio" THEN [numerator |-> b1, denominator |-> b2]
                  ELSE [band1 |-> b1, band2 |-> b2]

\* handleCalculate up to its first await, given the outcome of its operand
\* test; the button is inert while isLoading.
HandleCalculateIf(invalid) ==
  /\ Mounted
  /\ ~bmLoading
  /\ calcRuns < MaxCalcs
  /\ calcRuns' = calcRuns + 1
  /\ IF invalid
     THEN /\ calc' = [IdleCalc EXCEPT !.pc = "rejected", !.band1 = band1, !.band2 = band2,
                        !.operation = operation, !.run = calcRuns + 1,
                        !.toasts = <<"warning">>]
          /\ UNCHANGED bmLoading
     ELSE /\ bmLoading' = TRUE
          /\ calc' = [IdleCalc EXCEPT !.pc = "convert1", !.band1 = band1, !.band2 = band2,
                        !.operation = operation, !.run = calcRuns + 1,
                        !.log = Issue(<<>>, Request("POST", ConvertPath(band1), NoBody))]
  /\ UNCHANGED <<ctxVars, bandsVars, formVars, vizVars, statsVars>>

\* Variant: the run is refused only when both operands are unset.
HandleCalculateBothUnset == HandleCalculateIf(~Truthy(band1) /\ ~Truthy(band2))

\* if (!band1 || !band2) { toast warning; return }
HandleCalculate == HandleCalculateIf(~Truthy(band1) \/ ~Truthy(band2))

\* convert of band1 resolved: issue the convert of band2.
CalcConvert1Ok ==
  /\ calc.pc = "convert1"
  /\ calc' = [calc EXCEPT !.pc = "convert2",
                !.log = Issue(Complete(@), Request("POST", ConvertPath(calc.band2), NoBody))]
  /\ UNCHANGED <<ctxVars, bandsVars, formVars, bmLoading, calcRuns, vizVars, statsVars>>

\* convert of band2 resolved: issue the catalog re-check.
CalcConvert2Ok ==
  /\ calc.pc = "convert2"
  /\ calc' = [calc EXCEPT !.pc = "recheck",
                !.log = Issue(Complete(@), Request("GET", "/api/bands", NoBody))]
  /\ UNCHANGED <<ctxVars, bandsVars, formVars, bmLoading, calcRuns, vizVars, statsVars>>

\* A variant of the last step that reads the form as it is when the re-check
\* returns, not as it was when handleCalculate was invoked.
CalcRecheckOkLiveForm ==
  /\ calc.pc = "recheck"
  /\ calc' = [calc EXCEPT !.pc = "manipulate",
                !.log = Issue(Complete(@),
                              Request("POST", Endpoint(operation),
                                      Payload(operation, band1, band2)))]
  /\ UNCHANGED <<ctxVars, bandsVars, formVars, bmLoading, calcRuns, vizVars, statsVars>>

\* catalog re-check resolved (its response is only logged): issue the
\* arithmetic request.
CalcRecheckOk ==
  /\ calc.pc = "recheck"
  /\ calc' = [calc EXCEPT !.pc = "manipulate",
                !.log = Issue(Complete(@),
                              Request("POST", Endpoint(calc.operation),
                                      Payload(calc.operation, calc.band1, calc.band2)))]
  /\ UNCHANGED <<ctxVars, bandsVars, formVars, bmLoading, calcRuns, vizVars, statsVars>>

\* Bodies of a 2xx arithmetic response (response.data).
ResultPaths == {"/r", "blob:r", "", Undefined}

ManipResponses ==
  {[hasData |-> FALSE, status |-> Undefined, hasPayload |-> FALSE, visualization |-> Undefined]}
  \cup {[hasData |-> TRUE, status |-> s, hasPayload |-> FALSE, visualization |-> Undefined] :
          s \in {"success", "error", Undefined}}
  \cup {[hasData |-> TRUE, status |-> "success", hasPayload |-> TRUE, visualization |-> p] :
          p \in ResultPaths}
  \cup {[hasData |-> TRUE, status |-> "error", hasPayload |-> TRUE, visualization |-> "/r"]}

\* response.data && response.data.status === 'success'
IsSuccess(resp) == resp.hasData /\ resp.status = "success"

\* the catch and finally blocks of handleCalculate
CalcCatch(log, resp) ==
  /\ calc' = [calc EXCEPT !.pc = "failed", !.log = log, !.toasts = Append(@, "error"),
                !.resp = resp]
  /\ bmLoading' = IF Mounted THEN FALSE ELSE bmLoading
  /\ UNCHANGED <<ctxVars, vizVars>>

\* setVisualizationUrl(visualizationPath); setVisualizationType('manipulation')
\* and the rest of a run that ends in pc (the finally block included).
\* A variant of the publication that resets the band selection with the result.
CalcPublishClearsBand(resp, pc, toast) ==
  LET visualizationPath == resp.visualization IN
  IF Mounted
  THEN /\ visualizationUrl' = visualizationPath
       /\ visualizationType' = "manipulation"
       /\ VisualizationEffect(visualizationPath)
       /\ calc' = [calc EXCEPT !.pc = pc, !.log = Complete(@),
                     !.toasts = Append(@, toast),
                     !.result = visualizationPath,
                     !.resp = resp,
                     !.changed =
                       (IF visualizationUrl # visualizationPath
                        THEN {"visualizationUrl"} ELSE {})
                       \cup (IF visualizationType # "manipulation"
                             THEN {"visualizationType"} ELSE {})]
       /\ bmLoading' = FALSE
       /\ selectedBand' = ""
  ELSE /\ calc' = [calc EXCEPT !.pc = pc, !.log = Complete(@),
                     !.toasts = Append(@, toast),
                     !.result = visualizationPath,
                     !.resp = resp]
       /\ UNCHANGED <<ctxVars, vizVars, bmLoading>>

CalcPublish(resp, pc, toast) ==
  LET visualizationPath == resp.visualization IN
  IF Mounted
  THEN /\ visualizationUrl' = visualizationPath
       /\ visualizationType' = "manipulation"
       /\ VisualizationEffect(visualizationPath)
       /\ calc' = [calc EXCEPT !.pc = pc, !.log = Complete(@),
                     !.toasts = Append(@, toast),
                     !.result = visualizationPath,
                     !.resp = resp,
                     !.changed =
                       (IF visualizationUrl # visualizationPath
                        THEN {"visualizationUrl"} ELSE {})
                       \cup (IF visualizationType # "manipulation"
                             THEN {"visualizationType"} ELSE {})]
       /\ bmLoading' = FALSE
       /\ UNCHANGED selectedBand
  ELSE /\ calc' = [calc EXCEPT !.pc = pc, !.log = Complete(@),
                     !.toasts = Append(@, toast),
                     !.result = visualizationPath,
                     !.resp = resp]
       /\ UNCHANGED <<ctxVars, vizVars, bmLoading>>

\* Variant: the path is published before the status is tested.
CalcManipulateOkPublishFirst(resp) ==
  /\ calc.pc = "manipulate"
  /\ IF resp.hasData /\ resp.hasPayload
     THEN IF IsSuccess(resp)
          THEN CalcPublish(resp, "done", "success")
          ELSE CalcPublish(resp, "failed", "error")
     ELSE /\ CalcCatch(Complete(calc.log), resp)
          /\ UNCHANGED selectedBand
  /\ UNCHANGED <<bandsVars, formVars, calcRuns, statsVars>>

\* Variant: a result is dropped when a band was selected during the run.
CalcManipulateOkLatestOnly(resp) ==
  /\ calc.pc = "manipulate"
  /\ IF IsSuccess(resp) /\ resp.hasPayload
     THEN IF \E i \in 1..Len(selects) : selects[i].duringCalc = calc.run
          THEN /\ calc' = [calc EXCEPT !.pc = "done", !.log = Complete(@),
                             !.toasts = Append(@, "success"),
                             !.result = resp.visualization, !.resp = resp]
               /\ bmLoading' = FALSE
               /\ UNCHANGED <<ctxVars, vizVars>>
          ELSE CalcPublish(resp, "done", "success")
     ELSE /\ CalcCatch(Complete(calc.log), resp)
          /\ UNCHANGED selectedBand
  /\ UNCHANGED <<bandsVars, formVars, calcRuns, statsVars>>

\* the arithmetic request resolved with a 2xx.
CalcManipulateOk(resp) ==
  /\ calc.pc = "manipulate"
  /\ IF IsSuccess(resp) /\ resp.hasPayload
     THEN CalcPublish(resp, "done", "success")
     ELSE \* response.data.data is undefined (TypeError) or the else-throw
          /\ CalcCatch(Complete(calc.log), resp)
          /\ UNCHANGED selectedBand
  /\ UNCHANGED <<bandsVars, formVars, calcRuns, statsVars>>

\* A variant of the rejection in which a failed conversion of operand 1 is
\* passed over and the sequence goes on with operand 2.
CalcRequestFailContinues ==
  /\ calc.pc \in {"convert1", "convert2", "recheck", "manipulate"}
  /\ IF calc.pc = "convert1"
     THEN /\ calc' = [calc EXCEPT !.pc = "convert2",
                        !.log = Issue(Reject(@),
                                      Request("POST", ConvertPath(calc.band2), NoBody))]
          /\ UNCHANGED <<visualizationUrl, visualizationType, bmLoading, vizVars>>
     ELSE CalcCatch(Reject(calc.log), NoResponse)
  /\ UNCHANGED <<selectedBand, bandsVars, formVars, calcRuns, statsVars>>

\* the request handleCalculate awaits rejected (transport failure, non-2xx).
CalcRequestFail ==
  /\ calc.pc \in {"convert1", "convert2", "recheck", "manipulate"}
  /\ CalcCatch(Reject(calc.log), NoResponse)
  /\ UNCHANGED <<selectedBand, bandsVars, formVars, calcRuns, statsVars>>

\* ------------------------------------------------------------ Visualization
\* what the panel renders
Rendered ==
  IF vizLoading THEN "loading"
  ELSE IF vizError # "" THEN "error"
  ELSE IF Truthy(imageUrl) THEN "image"
  ELSE "prompt"

\* loadImageFromApi after its GET resolved.
ImageOk(i) ==
  /\ i \in 1..Len(imgFetches)
  /\ imgFetches[i].st = "pending"
  /\ imageUrl' = IF Mounted THEN CreateObjectURL(imgFetches[i].url) ELSE imageUrl
  /\ vizLoading' = IF Mounted THEN FALSE ELSE vizLoading
  /\ imgFetches' = [imgFetches EXCEPT ![i].st = "ok"]
  /\ UNCHANGED <<ctxVars, bandsVars, formVars, calcVars, vizError, statsVars>>

\* loadImageFromApi after its GET rejected.
ImageFail(i) ==
  /\ i \in 1..Len(imgFetches)
  /\ imgFetches[i].st = "pending"
  /\ vizError' = IF Mounted THEN "Error loading visualization" ELSE vizError
  /\ vizLoading' = IF Mounted THEN FALSE ELSE vizLoading
  /\ imgFetches' = [imgFetches EXCEPT ![i].st = "failed"]
  /\ UNCHANGED <<ctxVars, bandsVars, formVars, calcVars, imageUrl, statsVars>>

\* ------------------------------------------------------------ DataStatistics
StatsRendered ==
  IF statsLoading THEN "loading"
  ELSE IF statsError # "" THEN "error"
  ELSE IF stats # Null THEN "stats"
  ELSE "prompt"

\* Variant: a response for a band that is no longer selected is dropped.
StatisticsOkCurrentOnly(i, hasData) ==
  /\ i \in 1..Len(statsFetches)
  /\ statsFetches[i].st = "pending"
  /\ IF hasData
     THEN /\ stats' = IF statsFetches[i].band = selectedBand
                      THEN StatsOf(statsFetches[i].band) ELSE stats
          /\ UNCHANGED statsError
     ELSE statsError' = "Statistics data format is invalid" /\ UNCHANGED stats
  /\ statsLoading' = FALSE
  /\ statsFetches' = [statsFetches EXCEPT ![i].st = IF hasData THEN "ok" ELSE "invalid"]
  /\ UNCHANGED <<ctxVars, bandsVars, formVars, calcVars, vizVars>>

\* loadStatistics after its GET resolved; hasData: response.data &&
\* response.data.data
StatisticsOk(i, hasData) ==
  /\ i \in 1..Len(statsFetches)
  /\ statsFetches[i].st = "pending"
  /\ IF hasData
     THEN stats' = StatsOf(statsFetches[i].band) /\ UNCHANGED statsError
     ELSE statsError' = "Statistics data format is invalid" /\ UNCHANGED stats
  /\ statsLoading' = FALSE
  /\ statsFetches' = [statsFetches EXCEPT ![i].st = IF hasData THEN "ok" ELSE "invalid"]
  /\ UNCHANGED <<ctxVars, bandsVars, formVars, calcVars, vizVars>>

\* loadStatistics after its GET rejected.
StatisticsFail(i) ==
  /\ i \in 1..Len(statsFetches)
  /\ statsFetches[i].st = "pending"
  /\ statsError' = "Failed to load statistics"
  /\ statsLoading' = FALSE
  /\ statsFetches' = [statsFetches EXCEPT ![i].st = "failed"]
  /\ UNCHANGED <<ctxVars, bandsVars, formVars, calcVars, vizVars, stats>>

MaxFetches == MaxSelects + MaxCalcs

\* ------------------------------------------------------------ next-state relations
\* The panels are coupled only through the context, so each group of claims
\* is checked on the handlers that read or write the state it is about.

\* SpectralBands: mount and band buttons.
CatalogStep ==
  \/ \E body \in CatalogBodies : FetchBandsOk(body)
  \/ FetchBandsFail

SelectionStep ==
  \/ \E b \in BandIds : HandleBandSelect(b)
  \/ \E i \in 1..MaxSelects : BandConvertOk(i)
  \/ \E i \in 1..MaxSelects : BandConvertFail(i)

\* BandManipulations: the form and the handleCalculate sequence.
FormStep ==
  \/ \E op \in {"ratio", "difference"} : SetOperation(op)
  \/ \E b \in BandIds \cup {""} : SetBand1(b)
  \/ \E b \in BandIds \cup {""} : SetBand2(b)

CalculateStep ==
  \/ HandleCalculate
  \/ CalcConvert1Ok
  \/ CalcConvert2Ok
  \/ CalcRecheckOk
  \/ \E resp \in ManipResponses : CalcManipulateOk(resp)
  \/ CalcRequestFail

\* Visualization: completions of loadImageFromApi.
ImageStep ==
  \/ \E i \in 1..MaxFetches : ImageOk(i)
  \/ \E i \in 1..MaxFetches : ImageFail(i)

\* DataStatistics: completions of loadStatistics.
StatisticsStep ==
  \/ \E i \in 1..MaxSelects, hasData \in BOOLEAN : StatisticsOk(i, hasData)
  \/ \E i \in 1..MaxSelects : StatisticsFail(i)

\* The whole application.
Next ==
  \/ CatalogStep
  \/ SelectionStep
  \/ FormStep
  \/ CalculateStep
  \/ ImageStep
  \/ StatisticsStep

Spec == Init /\ [][Next]_vars

\* BandManipulations with the Visualization panel it publishes to.
NextArithmetic ==
  \/ FormStep
  \/ CalculateStep
  \/ ImageStep

SpecArithmetic == Init /\ [][NextArithmetic]_vars

\* SpectralBands with the Visualization panel it publishes to.
NextSelection ==
  \/ CatalogStep
  \/ SelectionStep
  \/ ImageStep

SpecSelection == Init /\ [][NextSelection]_vars

\* SpectralBands with the DataStatistics panel that follows selectedBand.
NextStatistics ==
  \/ CatalogStep
  \/ SelectionStep
  \/ StatisticsStep

SpecStatistics == Init /\ [][NextStatistics]_vars

\* Both writers of the shared visualization reference: band selections racing
\* handleCalculate runs.  The operands are chosen before the last run starts
\* (they are not read afterwards) and the operation stays 'ratio': neither
\* reaches the context.
NextShared ==
  \/ CatalogStep
  \/ Len(selects) < MaxRaceSelects /\ \E b \in BandIds : HandleBandSelect(b)
  \/ \E i \in 1..MaxSelects : BandConvertOk(i)
  \/ \E i \in 1..MaxSelects : BandConvertFail(i)
  \/ calcRuns < MaxRaceCalcs /\ \E b \in BandIds \cup {""} : SetBand1(b)
  \/ calcRuns < MaxRaceCalcs /\ \E b \in BandIds \cup {""} : SetBand2(b)
  \/ calcRuns < MaxRaceCalcs /\ HandleCalculate
  \/ CalcConvert1Ok
  \/ CalcConvert2Ok
  \/ CalcRecheckOk
  \/ \E resp \in ManipResponses : CalcManipulateOk(resp)
  \/ CalcRequestFail

SpecShared == Init /\ [][NextShared]_vars

\* All four panels together, with the budgets of NextShared, one operand choice
\* (both operands IMG_VIS) and statistics responses that carry data: every kind
\* of handler and continuation that runs while the context is alive.
NextPanels ==
  \/ CatalogStep
  \/ Len(selects) < MaxRaceSelects /\ \E b \in BandIds : HandleBandSelect(b)
  \/ \E i \in 1..MaxSelects : BandConvertOk(i)
  \/ \E i \in 1..MaxSelects : BandConvertFail(i)
  \/ calcRuns < MaxRaceCalcs /\ SetBand1("IMG_VIS")
  \/ calcRuns < MaxRaceCalcs /\ SetBand2("IMG_VIS")
  \/ calcRuns < MaxRaceCalcs /\ HandleCalculate
  \/ CalcConvert1Ok
  \/ CalcConvert2Ok
  \/ CalcRecheckOk
  \/ \E resp \in ManipResponses : CalcManipulateOk(resp)
  \/ CalcRequestFail
  \/ ImageStep
  \/ \E i \in 1..MaxSelects : StatisticsOk(i, TRUE)

SpecPanels == Init /\ [][NextPanels]_vars

\* ------------------------------------------------------------ properties
InFlight == {"convert1", "convert2", "recheck", "manipulate"}

\* C1: a handleCalculate run for the ratio of A (band1) and B (band2) that
\* ended in success has issued exactly: convert A, convert B, GET /api/bands,
\* POST ratio {numerator: A, denominator: B}, each one after the completion of
\* the one before it, and nothing else.
C1_RatioSequence ==
  (calc.pc = "done" /\ calc.operation = "ratio") =>
    LET c1 == [method |-> "POST", path |-> "/api/convert/" \o calc.band1, body |-> NoBody]
        c2 == [method |-> "POST", path |-> "/api/convert/" \o calc.band2, body |-> NoBody]
        ck == [method |-> "GET", path |-> "/api/bands", body |-> NoBody]
        ra == [method |-> "POST", path |-> "/api/manipulate/ratio",
               body |-> [numerator |-> calc.band1, denominator |-> calc.band2]]
    IN calc.log = << <<"issue", c1>>, <<"done", c1>>, <<"issue", c2>>, <<"done", c2>>,
                     <<"issue", ck>>, <<"done", ck>>, <<"issue", ra>>, <<"done", ra>> >>

C1_Witness ==
  /\ calc.pc = "done"
  /\ calc.operation = "ratio"
  /\ calc.band1 = "IMG_VIS"
  /\ calc.band2 = "IMG_SWIR"
  /\ Len(calc.log) = 8

\* C2: a handleCalculate call made while band1 or band2 is unset issues no
\* request, raises exactly one warning and leaves the context and the panel's
\* loading flag as they were.
C2_UnsetOperandsAbort ==
  [][(calcRuns' = calcRuns + 1 /\ (band1 = "" \/ band2 = "")) =>
       /\ calc'.log = <<>>
       /\ calc'.toasts = <<"warning">>
       /\ UNCHANGED <<ctxVars, bmLoading>>
       /\ UNCHANGED <<imgFetches, statsFetches, catalog, selects>>]_vars

C2_Witness ==
  /\ calc.pc = "rejected"
  /\ calc.band1 = "IMG_VIS"
  /\ calc.band2 = ""
  /\ calc.toasts = <<"warning">>

\* C3: a handleCalculate run that failed at any step raised exactly one
\* error notification and changed none of visualizationUrl,
\* visualizationType, selectedBand.
C3_FailedRunCommitsNothing ==
  calc.pc = "failed" => (calc.changed = {} /\ calc.toasts = <<"error">>)

\* a second run failed at the arithmetic request after the first one published
C3_Witness ==
  /\ calc.pc = "failed"
  /\ calc.run = 2
  /\ Len(calc.log) = 8
  /\ visualizationType = "manipulation"
  /\ calc.toasts = <<"error">>

\* C4: a handleBandSelect call whose convert call failed changed neither
\* visualizationUrl nor visualizationType and raised an error notification.
C4_FailedSelectKeepsVisualization ==
  \A i \in 1..Len(selects) :
    selects[i].pc = "failed" =>
      /\ "visualizationUrl" \notin selects[i].changed
      /\ "visualizationType" \notin selects[i].changed
      /\ selects[i].toasts = <<"error">>

\* a failed selection of one band while the other band is displayed
C4_Witness ==
  \E i \in 1..Len(selects) :
    /\ selects[i].pc = "failed"
    /\ visualizationType = "band"
    /\ visualizationUrl # VisualizePath(selects[i].band)

\* C5: a handleBandSelect call that failed changed no field of the context,
\* selectedBand included.
C5_FailedSelectKeepsContext ==
  \A i \in 1..Len(selects) : selects[i].pc = "failed" => selects[i].changed = {}

\* C6: visualizationType is 'none' exactly when visualizationUrl is empty.
C6_KindNoneIffEmpty ==
  (visualizationType = "none") <=> ~Truthy(visualizationUrl)

\* C7: when the reference went to "/x" and then to "/y" while the fetch of
\* "/x" was outstanding, and both fetches have resolved, the panel renders the
\* image fetched for "/y".
C7_LatestReferenceRendered ==
  (/\ Len(imgFetches) = 2
   /\ imgFetches[2].overlaps
   /\ imgFetches[1].st = "ok"
   /\ imgFetches[2].st = "ok"
   /\ visualizationUrl = imgFetches[2].url) =>
    (Rendered = "image" /\ imageUrl = CreateObjectURL(imgFetches[2].url))

\* C8: with a band selection and a handleCalculate run in flight together,
\* each one publishes its own reference and kind when its last response
\* arrives, whatever the other has done, no other step writes them, and an
\* invocation in flight stays in flight until its own response arrives.
C8_LastResponseWins ==
  [][/\ \A i \in 1..Len(selects) :
          /\ (selects[i].pc = "convert" /\ selects'[i].pc = "done") =>
               (visualizationUrl' = VisualizePath(selects[i].band)
                /\ visualizationType' = "band")
          /\ selects[i].pc = "convert" =>
               (selects'[i].pc \in {"convert", "done", "failed"}
                /\ selects'[i].band = selects[i].band)
     /\ (calc.pc = "manipulate" /\ calc'.pc = "done" /\ selects # <<>>) =>
          (visualizationUrl' = calc'.result /\ visualizationType' = "manipulation")
     /\ calc.pc \in InFlight =>
          (calc'.run = calc.run /\ calc'.pc \in InFlight \cup {"done", "failed"})
     /\ ((\A i \in 1..Len(selects) : selects'[i].pc = selects[i].pc)
         /\ ~(calc.pc = "manipulate" /\ calc'.pc = "done")) =>
          UNCHANGED <<visualizationUrl, visualizationType>>]_vars

\* the band was selected after the run started, its convert finished first,
\* and the run's result replaced it
C8_Witness ==
  \E i \in 1..Len(selects) :
    /\ selects[i].duringCalc = calc.run
    /\ selects[i].pc = "done"
    /\ calc.pc = "done"
    /\ calc.result = "/r"
    /\ visualizationUrl = "/r"
    /\ visualizationType = "manipulation"
    /\ "visualizationUrl" \in selects[i].changed

ChangedBand(r) == "selectedBand" \in r.changed

\* C9: the statistics requests issued are, in order, one per change of
\* selectedBand, each for the new band, and there is none while selectedBand
\* is empty.
C9_OneRequestPerChange ==
  LET changes == SelectSeq(selects, ChangedBand)
  IN /\ Len(statsFetches) = Len(changes)
     /\ \A k \in 1..Len(changes) : statsFetches[k].band = changes[k].band
     /\ (selectedBand = "" => statsFetches = <<>>)

C9_Witness ==
  /\ Len(selects) = 3
  /\ selects[1].band = "IMG_VIS"
  /\ selects[2].band = "IMG_SWIR"
  /\ selects[3].band = "IMG_VIS"
  /\ Len(statsFetches) = 3
  /\ statsFetches[3].band = "IMG_VIS"

\* C10: a statistics response is displayed when it arrives, whether or not
\* its band is still the selected one.
C10_ResponseAppliedOnArrival ==
  [][\A j \in 1..Len(statsFetches) :
       (statsFetches[j].st = "pending" /\ statsFetches'[j].st = "ok") =>
         (stats' = StatsOf(statsFetches[j].band) /\ ~statsLoading')]_vars

\* B1 then B2 selected, both responses in, B2 selected, B1's statistics shown
C10_Witness ==
  /\ Len(statsFetches) = 2
  /\ statsFetches[1].band = "IMG_VIS" /\ statsFetches[1].st = "ok"
  /\ statsFetches[2].band = "IMG_SWIR" /\ statsFetches[2].st = "ok"
  /\ selectedBand = "IMG_SWIR"
  /\ stats = StatsOf("IMG_VIS")
  /\ StatsRendered = "stats"

\* a 2xx arithmetic response without the shape
\* {status: "success", data: {visualization: path}}
Malformed(resp) ==
  \/ ~resp.hasData
  \/ resp.status # "success"
  \/ ~resp.hasPayload
  \/ resp.visualization = Undefined

\* C11: a handleCalculate run whose arithmetic request was answered 2xx with
\* a malformed body ended as a failure: it wrote neither visualizationUrl
\* nor visualizationType and raised one error notification.
C11_MalformedResponseIsFailure ==
  (calc.resp # NoResponse /\ Malformed(calc.resp)) =>
    (calc.pc = "failed" /\ calc.changed = {} /\ calc.toasts = <<"error">>)

\* C12: the catalog request is issued once and never again, and when it
\* failed (rejected, or answered 2xx without the data mapping) the
\* band-descriptor mapping is still empty, one notification was raised and the
\* context is as it was.
C12_CatalogFailureKeepsMappingEmpty ==
  /\ catalog.requests = 1
  /\ catalog.st \in {"failed", "crashed"} =>
       /\ bands = EmptyBands
       /\ catalog.toasts = <<"error">>
       /\ ctxVars = <<"", "none", "">>

\* C13: a panel none of whose requests is outstanding is not loading: once
\* every request a panel issued has resolved or failed, its loading flag is
\* false.
C13_IdlePanelsNotLoading ==
  /\ calc.pc \notin InFlight => ~bmLoading
  /\ (\A j \in 1..Len(imgFetches) : imgFetches[j].st # "pending") => ~vizLoading
  /\ (\A j \in 1..Len(statsFetches) : statsFetches[j].st # "pending") => ~statsLoading
\* C14: the selected band is empty until the first handleBandSelect; every
\* change of it is made by handleBandSelect, which writes the band it was
\* called with, and once non-empty it is never empty again. Arithmetic runs,
\* image fetches and statistics fetches leave it alone.
C14_SelectedBandWrittenBySelectOnly ==
  /\ [](selects = <<>> => selectedBand = "")
  /\ [][/\ selectedBand' # selectedBand =>
             /\ Len(selects') = Len(selects) + 1
             /\ selectedBand' = selects'[Len(selects')].band
        /\ selectedBand # "" => selectedBand' # ""]_vars

C14_Witness ==
  /\ selects # <<>>
  /\ selectedBand = selects[Len(selects)].band
  /\ calc.pc = "done"
  /\ \E j \in 1..Len(imgFetches) : imgFetches[j].st = "ok"
  /\ \E j \in 1..Len(statsFetches) : statsFetches[j].st = "ok"

\* C15: once every image fetch has resolved, the Visualization panel is decided
\* by the fetch for the most recent reference alone: its image is displayed if
\* that fetch succeeded, the error if it failed, whatever earlier fetches did
\* and whenever their outcomes arrived.
C15_LatestFetchDecidesPanel ==
  LET n == Len(imgFetches) IN
  (/\ n > 0
   /\ \A j \in 1..n : imgFetches[j].st # "pending"
   /\ visualizationUrl = imgFetches[n].url) =>
    /\ imgFetches[n].st = "ok" =>
         (Rendered = "image" /\ imageUrl = CreateObjectURL(imgFetches[n].url))
    /\ imgFetches[n].st = "failed" => Rendered = "error"

\* C16: while at least one image fetch is outstanding, the loading flag of the
\* Visualization panel is true.
C16_OutstandingFetchMeansLoading ==
  (\E j \in 1..Len(imgFetches) : imgFetches[j].st = "pending") => vizLoading

\* C19: whenever no conversion started by a band selection is outstanding and
\* the visualization kind is 'band', the visualization reference is the
\* visualize path of the selected band.
C19_BandImageMatchesSelectedBand ==
  (/\ \A i \in 1..Len(selects) : selects[i].pc # "convert"
   /\ visualizationType = "band") =>
    visualizationUrl = VisualizePath(selectedBand)

\* C17: within one arithmetic sequence the requests are issued one after the
\* other, each at most once and each only after the one before it completed:
\* convert of operand 1, convert of operand 2, catalog re-check, arithmetic
\* request. A failed request is the last entry of the sequence: nothing is
\* issued after it and nothing is retried.
C17_FailureShortCircuits ==
  LET log == calc.log
      StepPath(k) == CASE k = 1 -> ConvertPath(calc.band1)
                       [] k = 2 -> ConvertPath(calc.band2)
                       [] k = 3 -> "/api/bands"
                       [] OTHER -> Endpoint(calc.operation)
  IN /\ Len(log) <= 8
     /\ \A k \in 1..Len(log) :
          IF k % 2 = 1
          THEN /\ log[k][1] = "issue"
               /\ log[k][2].path = StepPath((k + 1) \div 2)
               /\ k > 1 => log[k - 1][1] = "done"
          ELSE /\ log[k][1] \in {"done", "failed"}
               /\ log[k][2].path = log[k - 1][2].path
     /\ \A k \in 1..Len(log) :
          log[k][1] = "failed" => (k = Len(log) /\ calc.pc = "failed")

C17_Witness ==
  /\ calc.pc = "failed"
  /\ Len(calc.log) = 4
  /\ calc.log[4][1] = "failed"
  /\ calc.log[4][2].path = ConvertPath(calc.band2)

\* C20: the operation and the operands of an arithmetic sequence are those of
\* the form at the moment handleCalculate was invoked: the two convert calls
\* name the bands that the arithmetic payload carries, and the endpoint agrees
\* with the shape of the payload, whatever the form holds by then.
C20_OperandsFixedAtInvocation ==
  LET log == calc.log IN
  /\ Len(log) >= 1 => log[1][2].path = ConvertPath(calc.band1)
  /\ Len(log) >= 3 => log[3][2].path = ConvertPath(calc.band2)
  /\ Len(log) >= 7 =>
       LET req == log[7][2] IN
       /\ req.path = Endpoint(calc.operation)
       /\ IF req.path = "/api/manipulate/ratio"
          THEN /\ DOMAIN req.body = {"numerator", "denominator"}
               /\ log[1][2].path = ConvertPath(req.body.numerator)
               /\ log[3][2].path = ConvertPath(req.body.denominator)
          ELSE /\ req.path = "/api/manipulate/difference"
               /\ DOMAIN req.body = {"band1", "band2"}
               /\ log[1][2].path = ConvertPath(req.body.band1)
               /\ log[3][2].path = ConvertPath(req.body.band2)

C20_Witness ==
  /\ calc.pc = "done"
  /\ Len(calc.log) = 8
  /\ operation # calc.operation
  /\ band1 # calc.band1
  /\ band2 # calc.band2

\* C18: reference and kind of the shared visualization state are written
\* together by one writer. Kind 'band' goes with the visualize path of a band
\* whose selection completed its conversion; every step that changes the pair
\* is either such a completion, writing 'band' and that path, or the arrival of
\* an arithmetic response with status "success", writing 'manipulation' and the
\* visualization path of that response.
C18_ReferenceAndKindFromOneWriter ==
  /\ [](visualizationType = "band" =>
          \E i \in 1..Len(selects) :
            /\ selects[i].pc = "done"
            /\ visualizationUrl = VisualizePath(selects[i].band))
  /\ [][<<visualizationUrl, visualizationType>>' # <<visualizationUrl, visualizationType>> =>
          \/ \E i \in 1..Len(selects) :
               /\ selects[i].pc = "convert"
               /\ selects'[i].pc = "done"
               /\ visualizationType' = "band"
               /\ visualizationUrl' = VisualizePath(selects[i].band)
          \/ /\ calc.pc = "manipulate"
             /\ calc'.pc = "done"
             /\ IsSuccess(calc'.resp)
             /\ visualizationType' = "manipulation"
             /\ visualizationUrl' = calc'.resp.visualization]_vars

C18_Witness ==
  /\ \E i \in 1..Len(selects) :
       /\ selects[i].pc = "done"
       /\ "visualizationUrl" \in selects[i].changed
       /\ visualizationUrl = VisualizePath(selects[i].band)
  /\ visualizationType = "band"
  /\ calc.pc = "done"
  /\ "visualizationType" \in calc.changed

====
